---- MODULE Spec2Model ----
(***************************************************************************)
(* A model of the status service (main.py) and of the deployment           *)
(* descriptor checks (tests/test_cicd_workflow.py,                         *)
(* tests/test_docker_environment.py).                                      *)
(*                                                                         *)
(* Python strings are sequences of one-character strings, so that          *)
(* str.lower, int(str), the substring test and str.startswith are          *)
(* computed character by character.                                        *)
(***************************************************************************)
EXTENDS Integers, Sequences, FiniteSets, TLC

VARIABLES
    environ,     \* os.environ: a function from the names that are set to their values
    pc,          \* the position of the process: main, bind, serving, error, bind_failed
    exc,         \* the exception that ended the __main__ block, or "none"
    server,      \* the arguments uvicorn.run was called with
    launchEnv,   \* history: os.environ as it was when the __main__ block ran
    prevRoot,    \* history: the GET / response before the last one
    lastRoot,    \* the last GET / response, with os.environ as it was at that request
    lastHealth,  \* the last GET /health response
    fs,          \* the files the descriptor checks read
    results      \* the outcome of each descriptor check, once it has run

vars == <<environ, pc, exc, server, launchEnv, prevRoot, lastRoot, lastHealth, fs, results>>

serviceVars == <<environ, pc, exc, server, launchEnv, prevRoot, lastRoot, lastHealth>>

validatorVars == <<fs, results>>

(***************************************************************************)
(* String literals of main.py                                              *)
(***************************************************************************)
s_development ==
    <<"d","e","v","e","l","o","p","m","e","n","t">>
s_8000 ==
    <<"8","0","0","0">>
s_0_0_0_0 ==
    <<"0",".","0",".","0",".","0">>
s_Hello_World ==
    <<"H","e","l","l","o"," ","W","o","r","l","d">>
s_Running ==
    <<"R","u","n","n","i","n","g">>
s_healthy ==
    <<"h","e","a","l","t","h","y">>

(***************************************************************************)
(* Values the environment variables are drawn from                         *)
(***************************************************************************)
s_empty ==
    << >>
s_Development ==
    <<"D","e","v","e","l","o","p","m","e","n","t">>
s_development_padded ==
    <<" ","d","e","v","e","l","o","p","m","e","n","t"," ">>
s_test ==
    <<"t","e","s","t">>
s_abc ==
    <<"a","b","c">>
s_080_padded ==
    <<" ","0","8","0">>
s_localhost ==
    <<"l","o","c","a","l","h","o","s","t">>
s_unhealthy ==
    <<"u","n","h","e","a","l","t","h","y">>

EnvironmentValues == {s_empty, s_Development, s_development_padded, s_test}

PortValues == {s_empty, s_abc, s_080_padded}

HostValues == {s_empty, s_localhost}

\* The values a variable may be set to.
ValuesOf(name) ==
    CASE name = "ENVIRONMENT" -> EnvironmentValues
      [] name = "PORT" -> PortValues
      [] name = "HOST" -> HostValues

\* Every os.environ over the three variables: each is unset or set to one of its values.
Environs ==
    LET all == EnvironmentValues \cup PortValues \cup HostValues
    IN  {e \in UNION {[names -> all] : names \in SUBSET {"ENVIRONMENT", "PORT", "HOST"}} :
            \A n \in DOMAIN e : e[n] \in ValuesOf(n)}

(***************************************************************************)
(* Python built-ins used by main.py                                        *)
(***************************************************************************)
\* os.getenv(key, default): the value when the variable is set, whatever it
\* is (the empty string included), the default only when it is unset.
getenv(e, key, default) == IF key \in DOMAIN e THEN e[key] ELSE default

UpperLetters ==
    <<"A","B","C","D","E","F","G","H","I","J","K","L","M",
      "N","O","P","Q","R","S","T","U","V","W","X","Y","Z">>

LowerLetters ==
    <<"a","b","c","d","e","f","g","h","i","j","k","l","m",
      "n","o","p","q","r","s","t","u","v","w","x","y","z">>

LowerChar(c) ==
    IF \E i \in DOMAIN UpperLetters : UpperLetters[i] = c
    THEN LowerLetters[CHOOSE i \in DOMAIN UpperLetters : UpperLetters[i] = c]
    ELSE c

\* str.lower()
lower(s) == [i \in DOMAIN s |-> LowerChar(s[i])]

DigitChars ==
    <<"0","1","2","3","4","5","6","7","8","9">>

IsDigit(c) == \E i \in DOMAIN DigitChars : DigitChars[i] = c

DigitValue(c) == (CHOOSE i \in DOMAIN DigitChars : DigitChars[i] = c) - 1

IsSpace(c) == c \in {" ", "\t", "\n", "\r", "\f"}

RECURSIVE lstrip(_)
lstrip(s) == IF s # << >> /\ IsSpace(Head(s)) THEN lstrip(Tail(s)) ELSE s

RECURSIVE rstrip(_)
rstrip(s) ==
    IF s # << >> /\ IsSpace(s[Len(s)]) THEN rstrip(SubSeq(s, 1, Len(s) - 1)) ELSE s

\* str.strip()
strip(s) == rstrip(lstrip(s))

\* The digits of an integer literal: a digit first and last, and single
\* underscores only between digits.
IsDigitString(d) ==
    /\ d # << >>
    /\ \A i \in DOMAIN d : IsDigit(d[i]) \/ d[i] = "_"
    /\ IsDigit(d[1])
    /\ IsDigit(d[Len(d)])
    /\ \A i \in 1..(Len(d) - 1) : ~(d[i] = "_" /\ d[i + 1] = "_")

RECURSIVE DigitsValue(_, _)
DigitsValue(d, acc) ==
    IF d = << >> THEN acc
    ELSE IF Head(d) = "_" THEN DigitsValue(Tail(d), acc)
    ELSE DigitsValue(Tail(d), 10 * acc + DigitValue(Head(d)))

\* int(s) in base 10: surrounding whitespace is dropped, one sign is allowed,
\* and anything else than an integer literal raises ValueError.
int(s) ==
    LET t == strip(s)
        signed == t # << >> /\ Head(t) \in {"+", "-"}
        d == IF signed THEN Tail(t) ELSE t
    IN  IF IsDigitString(d)
        THEN [raises |-> "none",
              value |-> IF signed /\ Head(t) = "-" THEN 0 - DigitsValue(d, 0)
                        ELSE DigitsValue(d, 0)]
        ELSE [raises |-> "ValueError", value |-> 0]

(***************************************************************************)
(* The two routes                                                          *)
(***************************************************************************)
\* A faulty root(): the port is normalised before it is returned.
root_stripped(e) ==
    [message |-> s_Hello_World,
     status |-> s_Running,
     environment |-> getenv(e, "ENVIRONMENT", s_development),
     port |-> strip(getenv(e, "PORT", s_8000))]

\* A faulty root(): the environment is not read at all.
root_defaults(e) ==
    [message |-> s_Hello_World,
     status |-> s_Running,
     environment |-> s_development,
     port |-> s_8000]

\* The mapping root() returns, read from os.environ as it is at the call.
root(e) ==
    [message |-> s_Hello_World,
     status |-> s_Running,
     environment |-> getenv(e, "ENVIRONMENT", s_development),
     port |-> getenv(e, "PORT", s_8000)]

\* A faulty health_check(): the status depends on ENVIRONMENT.
health_check_by_environment ==
    [status |-> IF getenv(environ, "ENVIRONMENT", s_development) = s_empty
                THEN s_unhealthy ELSE s_healthy]

\* The mapping health_check() returns.
health_check ==
    [status |-> s_healthy]

NoResponse == [sent |-> FALSE]

\* A handler's return value as the framework sends it: status 200, the
\* mapping as the JSON body.
Response(body) == [sent |-> TRUE, status |-> 200, body |-> body]

\* GET /
GetRoot ==
    /\ pc = "serving"
    /\ lastRoot' = [response |-> Response(root(environ)), environ |-> environ]
    /\ prevRoot' = lastRoot
    /\ UNCHANGED <<environ, pc, exc, server, launchEnv, lastHealth>>
    /\ UNCHANGED validatorVars

\* GET /health
GetHealth ==
    /\ pc = "serving"
    /\ lastHealth' = Response(health_check)
    /\ UNCHANGED <<environ, pc, exc, server, launchEnv, prevRoot, lastRoot>>
    /\ UNCHANGED validatorVars

(***************************************************************************)
(* Changes to the process environment while the service runs               *)
(***************************************************************************)
\* HOST is read by the __main__ block alone, so it keeps the value the
\* process was started with; ENVIRONMENT and PORT change at any time.
\* os.environ[name] = value
SetEnv ==
    /\ pc = "serving"
    /\ \E name \in {"ENVIRONMENT", "PORT"} : \E value \in ValuesOf(name) :
          environ' = [n \in DOMAIN environ \cup {name} |->
                         IF n = name THEN value ELSE environ[n]]
    /\ UNCHANGED <<pc, exc, server, launchEnv, prevRoot, lastRoot, lastHealth>>
    /\ UNCHANGED validatorVars

\* del os.environ[name]
DelEnv ==
    /\ pc = "serving"
    /\ \E name \in DOMAIN environ \cap {"ENVIRONMENT", "PORT"} :
          environ' = [n \in DOMAIN environ \ {name} |-> environ[n]]
    /\ UNCHANGED <<pc, exc, server, launchEnv, prevRoot, lastRoot, lastHealth>>
    /\ UNCHANGED validatorVars

(***************************************************************************)
(* The __main__ block                                                      *)
(***************************************************************************)
NotCalled == [called |-> FALSE]

host_of(e) == getenv(e, "HOST", s_0_0_0_0)

port_of(e) == int(getenv(e, "PORT", s_8000))

\* A faulty reload_enabled: the comparison without lower().
reload_enabled_case_sensitive(e) ==
    getenv(e, "ENVIRONMENT", s_development) = s_development

\* reload_enabled
reload_enabled(e) == lower(getenv(e, "ENVIRONMENT", s_development)) = s_development

\* The block up to the call of uvicorn.run: int() may raise before the call.
Main ==
    /\ pc = "main"
    /\ launchEnv' = environ
    /\ IF port_of(environ).raises # "none"
       THEN /\ pc' = "error"
            /\ exc' = port_of(environ).raises
            /\ server' = server
       ELSE /\ pc' = "bind"
            /\ exc' = exc
            /\ server' = [called |-> TRUE,
                          host |-> host_of(environ),
                          port |-> port_of(environ).value,
                          reload |-> reload_enabled(environ)]
    /\ UNCHANGED <<environ, prevRoot, lastRoot, lastHealth>>
    /\ UNCHANGED validatorVars

\* uvicorn.run binds the listening socket and serves.
BindOk ==
    /\ pc = "bind"
    /\ pc' = "serving"
    /\ UNCHANGED <<environ, exc, server, launchEnv, prevRoot, lastRoot, lastHealth>>
    /\ UNCHANGED validatorVars

\* The bind fails: the address is in use, or the host or the port cannot be bound.
BindFail ==
    /\ pc = "bind"
    /\ pc' = "bind_failed"
    /\ exc' = "OSError"
    /\ UNCHANGED <<environ, server, launchEnv, prevRoot, lastRoot, lastHealth>>
    /\ UNCHANGED validatorVars

NoFiles == [none |-> TRUE]

NoResults == [none |-> TRUE]

\* The process is started with any environment and runs main.py directly.
Init ==
    /\ environ \in Environs
    /\ pc = "main"
    /\ exc = "none"
    /\ server = NotCalled
    /\ launchEnv = << >>
    /\ prevRoot = [response |-> NoResponse, environ |-> << >>]
    /\ lastRoot = [response |-> NoResponse, environ |-> << >>]
    /\ lastHealth = NoResponse
    /\ fs = NoFiles
    /\ results = NoResults

Next ==
    \/ Main
    \/ BindOk
    \/ BindFail
    \/ GetRoot
    \/ GetHealth
    \/ SetEnv
    \/ DelEnv

Spec == Init /\ [][Next]_vars

(***************************************************************************)
(* The deployment descriptor checks                                        *)
(*                                                                         *)
(* String literals of tests/test_cicd_workflow.py and                      *)
(* tests/test_docker_environment.py                                        *)
(***************************************************************************)
s_name ==
    <<"n","a","m","e">>
s_jobs ==
    <<"j","o","b","s">>
s_security_scan ==
    <<"s","e","c","u","r","i","t","y","-","s","c","a","n">>
s_lint ==
    <<"l","i","n","t">>
s_build ==
    <<"b","u","i","l","d">>
s_steps ==
    <<"s","t","e","p","s">>
s_needs ==
    <<"n","e","e","d","s">>
s_deploy ==
    <<"d","e","p","l","o","y">>
s_variable ==
    <<"v","a","r","i","a","b","l","e">>
s_FROM_python ==
    <<"F","R","O","M"," ","p","y","t","h","o","n">>
s_WORKDIR_app ==
    <<"W","O","R","K","D","I","R"," ","/","a","p","p">>
s_COPY_requirements_txt ==
    <<"C","O","P","Y"," ","r","e","q","u","i","r","e","m","e","n","t","s",".",
          "t","x","t">>
s_EXPOSE ==
    <<"E","X","P","O","S","E">>
s_shebang ==
    <<"#","!","/","b","i","n","/","b","a","s","h">>
s_python ==
    <<"p","y","t","h","o","n">>
s_uvicorn ==
    <<"u","v","i","c","o","r","n">>
s_environment_colon ==
    <<"e","n","v","i","r","o","n","m","e","n","t",":">>
s_ports_colon ==
    <<"p","o","r","t","s",":">>
m_workflow_missing ==
    <<"G","i","t","H","u","b"," ","A","c","t","i","o","n","s"," ","w","o","r",
          "k","f","l","o","w"," ","f","i","l","e"," ","d","o","e","s"," ","n",
          "o","t"," ","e","x","i","s","t">>
m_workflow_name ==
    <<"W","o","r","k","f","l","o","w"," ","s","h","o","u","l","d"," ","h","a",
          "v","e"," ","a"," ","n","a","m","e">>
m_workflow_jobs ==
    <<"W","o","r","k","f","l","o","w"," ","s","h","o","u","l","d"," ","d","e",
          "f","i","n","e"," ","j","o","b","s">>
m_workflow_job_prefix ==
    <<"W","o","r","k","f","l","o","w"," ","s","h","o","u","l","d"," ","h","a",
          "v","e"," ","a"," ">>
m_workflow_job_suffix ==
    <<" ","j","o","b">>
m_test_steps ==
    <<"T","e","s","t"," ","j","o","b"," ","s","h","o","u","l","d"," ","h","a",
          "v","e"," ","s","t","e","p","s">>
m_test_needs ==
    <<"T","e","s","t"," ","j","o","b"," ","s","h","o","u","l","d"," ","d","e",
          "p","e","n","d"," ","o","n"," ","s","e","c","u","r","i","t","y"," ",
          "a","n","d"," ","l","i","n","t"," ","j","o","b","s">>
m_deploy_jobs ==
    <<"W","o","r","k","f","l","o","w"," ","s","h","o","u","l","d"," ","h","a",
          "v","e"," ","a","t"," ","l","e","a","s","t"," ","o","n","e"," ","d",
          "e","p","l","o","y","m","e","n","t"," ","j","o","b">>
m_terraform_missing ==
    <<"T","e","r","r","a","f","o","r","m"," ","d","i","r","e","c","t","o","r",
          "y"," ","d","o","e","s"," ","n","o","t"," ","e","x","i","s","t">>
m_main_tf ==
    <<"m","a","i","n",".","t","f"," ","s","h","o","u","l","d"," ","e","x","i",
          "s","t"," ","i","n"," ","t","e","r","r","a","f","o","r","m"," ","d",
          "i","r","e","c","t","o","r","y">>
m_variables_tf ==
    <<"v","a","r","i","a","b","l","e","s",".","t","f"," ","s","h","o","u","l",
          "d"," ","d","e","f","i","n","e"," ","v","a","r","i","a","b","l","e",
          "s">>
m_docker_unavailable ==
    <<"D","o","c","k","e","r"," ","n","o","t"," ","a","v","a","i","l","a","b",
          "l","e"," ","o","n"," ","t","h","i","s"," ","s","y","s","t","e","m">>
m_dockerfile_missing ==
    <<"D","o","c","k","e","r","f","i","l","e"," ","d","o","e","s"," ","n","o",
          "t"," ","e","x","i","s","t">>
m_dockerfile_from ==
    <<"D","o","c","k","e","r","f","i","l","e"," ","s","h","o","u","l","d"," ",
          "u","s","e"," ","P","y","t","h","o","n"," ","b","a","s","e"," ","i",
          "m","a","g","e">>
m_dockerfile_workdir ==
    <<"D","o","c","k","e","r","f","i","l","e"," ","s","h","o","u","l","d"," ",
          "s","e","t"," ","w","o","r","k","i","n","g"," ","d","i","r","e","c",
          "t","o","r","y">>
m_dockerfile_copy ==
    <<"D","o","c","k","e","r","f","i","l","e"," ","s","h","o","u","l","d"," ",
          "c","o","p","y"," ","r","e","q","u","i","r","e","m","e","n","t","s">>
m_dockerfile_expose ==
    <<"D","o","c","k","e","r","f","i","l","e"," ","s","h","o","u","l","d"," ",
          "e","x","p","o","s","e"," ","p","o","r","t">>
m_entrypoint_missing ==
    <<"e","n","t","r","y","p","o","i","n","t",".","s","h"," ","d","o","e","s",
          " ","n","o","t"," ","e","x","i","s","t">>
m_entrypoint_bash ==
    <<"E","n","t","r","y","p","o","i","n","t"," ","s","h","o","u","l","d"," ",
          "b","e"," ","a"," ","b","a","s","h"," ","s","c","r","i","p","t">>
m_entrypoint_python ==
    <<"E","n","t","r","y","p","o","i","n","t"," ","s","h","o","u","l","d"," ",
          "r","u","n"," ","P","y","t","h","o","n">>
m_entrypoint_uvicorn ==
    <<"E","n","t","r","y","p","o","i","n","t"," ","s","h","o","u","l","d"," ",
          "s","t","a","r","t"," ","u","v","i","c","o","r","n"," ","s","e","r",
          "v","e","r">>
m_compose_missing ==
    <<"d","o","c","k","e","r","-","c","o","m","p","o","s","e",".","y","m","l",
          " ","d","o","e","s"," ","n","o","t"," ","e","x","i","s","t">>
m_compose_environment ==
    <<"d","o","c","k","e","r","-","c","o","m","p","o","s","e"," ","s","h","o",
          "u","l","d"," ","s","e","t"," ","e","n","v","i","r","o","n","m","e",
          "n","t"," ","v","a","r","i","a","b","l","e","s">>
m_compose_ports ==
    <<"d","o","c","k","e","r","-","c","o","m","p","o","s","e"," ","s","h","o",
          "u","l","d"," ","m","a","p"," ","p","o","r","t","s">>

\* A faulty essential_jobs: build is left out.
essential_jobs_without_build == <<s_security_scan, s_lint, s_test>>

\* essential_jobs
essential_jobs == <<s_security_scan, s_lint, s_test, s_build>>

(***************************************************************************)
(* Python values, as yaml.safe_load returns them, and the operations the   *)
(* checks apply to them. An operation returns [raises, value]: the         *)
(* exception it raises ("none" when it returns) and the value it returns.  *)
(***************************************************************************)
PyNone == [type |-> "NoneType"]

PyStr(s) == [type |-> "str", chars |-> s]

PyInt(n) == [type |-> "int", number |-> n]

PyList(xs) == [type |-> "list", elements |-> xs]

\* A dict: its items in insertion order, each [key, value].
PyDict(kvs) == [type |-> "dict", items |-> kvs]

Returns(v) == [raises |-> "none", value |-> v]

Raises(e) == [raises |-> e, value |-> PyNone]

\* a == b, for the values compared here
py_eq(a, b) == a.type = b.type /\ a = b

\* needle in text, for two str
Contains(text, needle) ==
    \E i \in 0..(Len(text) - Len(needle)) : SubSeq(text, i + 1, i + Len(needle)) = needle

\* str.startswith
startswith(s, prefix) ==
    Len(s) >= Len(prefix) /\ SubSeq(s, 1, Len(prefix)) = prefix

\* key in container, for a str key: a key of a dict, an element of a list,
\* a substring of a str; a TypeError for None and for a number.
py_in(key, container) ==
    CASE container.type = "dict" ->
            Returns(\E i \in DOMAIN container.items : py_eq(container.items[i].key, key))
      [] container.type = "list" ->
            Returns(\E i \in DOMAIN container.elements : py_eq(container.elements[i], key))
      [] container.type = "str" -> Returns(Contains(container.chars, key.chars))
      [] OTHER -> Raises("TypeError")

\* container[key], for a str key: the value of a dict (KeyError without the
\* key); a TypeError for a list and a str, whose indices are integers, and
\* for None and a number.
py_getitem(container, key) ==
    IF container.type = "dict"
    THEN IF \E i \in DOMAIN container.items : py_eq(container.items[i].key, key)
         THEN Returns(container.items[
                  CHOOSE i \in DOMAIN container.items : py_eq(container.items[i].key, key)].value)
         ELSE Raises("KeyError")
    ELSE Raises("TypeError")

\* container.keys(): only a dict has it.
py_keys(container) ==
    IF container.type = "dict"
    THEN Returns([i \in DOMAIN container.items |-> container.items[i].key])
    ELSE Raises("AttributeError")

(***************************************************************************)
(* Outcomes of a check, as pytest reports them                             *)
(***************************************************************************)
NotRun == [outcome |-> "notrun", raised |-> "none", message |-> << >>]

Passed == [outcome |-> "passed", raised |-> "none", message |-> << >>]

\* A failed assert: AssertionError with the assert's message.
AssertionFailure(message) ==
    [outcome |-> "failed", raised |-> "AssertionError", message |-> message]

\* pytest.skip(reason), and a skipif mark whose condition is true.
Skip(reason) == [outcome |-> "skipped", raised |-> "Skipped", message |-> reason]

\* Any other exception raised in a test body: pytest reports the test as failed.
Error(exception) == [outcome |-> "failed", raised |-> exception, message |-> << >>]

(***************************************************************************)
(* tests/test_cicd_workflow.py                                             *)
(***************************************************************************)
test_github_workflow_exists(f) ==
    IF f.workflow.exists THEN Passed ELSE AssertionFailure(m_workflow_missing)

\* Lines 56-58: the jobs whose key starts with "deploy"; startswith is
\* called on every key, and a key that is no str has no such method.
CheckDeployJobs(workflow_config) ==
    LET jobs == py_getitem(workflow_config, PyStr(s_jobs))
    IN  IF jobs.raises # "none" THEN Error(jobs.raises)
        ELSE LET keys == py_keys(jobs.value)
             IN  IF keys.raises # "none" THEN Error(keys.raises)
                 ELSE IF \E i \in DOMAIN keys.value : keys.value[i].type # "str"
                      THEN Error("AttributeError")
                 ELSE LET deploy_jobs ==
                              SelectSeq(keys.value, LAMBDA job : startswith(job.chars, s_deploy))
                      IN  IF Len(deploy_jobs) > 0 THEN Passed
                          ELSE AssertionFailure(m_deploy_jobs)

\* Lines 49-54: the test job has "steps" and "needs".
CheckTestJob(workflow_config) ==
    LET jobs == py_getitem(workflow_config, PyStr(s_jobs))
    IN  IF jobs.raises # "none" THEN Error(jobs.raises)
        ELSE LET test_job == py_getitem(jobs.value, PyStr(s_test))
             IN  IF test_job.raises # "none" THEN Error(test_job.raises)
                 ELSE LET has_steps == py_in(PyStr(s_steps), test_job.value)
                          has_needs == py_in(PyStr(s_needs), test_job.value)
                      IN  IF has_steps.raises # "none" THEN Error(has_steps.raises)
                          ELSE IF ~has_steps.value THEN AssertionFailure(m_test_steps)
                          ELSE IF has_needs.raises # "none" THEN Error(has_needs.raises)
                          ELSE IF ~has_needs.value THEN AssertionFailure(m_test_needs)
                          ELSE CheckDeployJobs(workflow_config)

\* Lines 45-47: the loop over essential_jobs, from the i-th on; the first
\* job that is missing ends the check.
RECURSIVE CheckEssentialJobs(_, _)
CheckEssentialJobs(workflow_config, i) ==
    IF i > Len(essential_jobs) THEN CheckTestJob(workflow_config)
    ELSE LET jobs == py_getitem(workflow_config, PyStr(s_jobs))
         IN  IF jobs.raises # "none" THEN Error(jobs.raises)
             ELSE LET has_job == py_in(PyStr(essential_jobs[i]), jobs.value)
                  IN  IF has_job.raises # "none" THEN Error(has_job.raises)
                      ELSE IF ~has_job.value
                           THEN AssertionFailure(
                                    m_workflow_job_prefix \o essential_jobs[i] \o m_workflow_job_suffix)
                      ELSE CheckEssentialJobs(workflow_config, i + 1)

\* Lines 38-42: the workflow has "name" and "jobs".
CheckWorkflowKeys(workflow_config) ==
    LET has_name == py_in(PyStr(s_name), workflow_config)
        has_jobs == py_in(PyStr(s_jobs), workflow_config)
    IN  IF has_name.raises # "none" THEN Error(has_name.raises)
        ELSE IF ~has_name.value THEN AssertionFailure(m_workflow_name)
        ELSE IF has_jobs.raises # "none" THEN Error(has_jobs.raises)
        ELSE IF ~has_jobs.value THEN AssertionFailure(m_workflow_jobs)
        ELSE CheckEssentialJobs(workflow_config, 1)

\* A faulty test_github_workflow_configuration: an absent file fails the
\* check instead of skipping it.
test_github_workflow_configuration_asserts_file(f) ==
    IF ~f.workflow.exists THEN AssertionFailure(m_workflow_missing)
    ELSE IF f.workflow.safe_load.raises # "none" THEN Error(f.workflow.safe_load.raises)
    ELSE CheckWorkflowKeys(f.workflow.safe_load.value)

\* Lines 32-36: skip without the file, else load it and check what it holds.
test_github_workflow_configuration(f) ==
    IF ~f.workflow.exists THEN Skip(m_workflow_missing)
    ELSE IF f.workflow.safe_load.raises # "none" THEN Error(f.workflow.safe_load.raises)
    ELSE CheckWorkflowKeys(f.workflow.safe_load.value)

test_terraform_configuration(f) ==
    IF ~f.terraform.exists THEN Skip(m_terraform_missing)
    ELSE IF ~f.terraform.main_tf THEN AssertionFailure(m_main_tf)
    ELSE IF f.terraform.variables_tf.exists
            /\ ~Contains(f.terraform.variables_tf.content, s_variable)
         THEN AssertionFailure(m_variables_tf)
    ELSE Passed

(***************************************************************************)
(* tests/test_docker_environment.py                                        *)
(***************************************************************************)
\* Whether "docker --version" runs and exits with status 0.
check_docker_command_exists(f) == f.docker

test_dockerfile_exists(f) ==
    IF ~check_docker_command_exists(f) THEN Skip(m_docker_unavailable)
    ELSE IF ~f.Dockerfile.exists THEN AssertionFailure(m_dockerfile_missing)
    ELSE LET content == f.Dockerfile.content
         IN  IF ~Contains(content, s_FROM_python) THEN AssertionFailure(m_dockerfile_from)
             ELSE IF ~Contains(content, s_WORKDIR_app) THEN AssertionFailure(m_dockerfile_workdir)
             ELSE IF ~Contains(content, s_COPY_requirements_txt)
                  THEN AssertionFailure(m_dockerfile_copy)
             ELSE IF ~Contains(content, s_EXPOSE) THEN AssertionFailure(m_dockerfile_expose)
             ELSE Passed

test_entrypoint_script(f) ==
    IF ~check_docker_command_exists(f) THEN Skip(m_docker_unavailable)
    ELSE IF ~f.entrypoint.exists THEN AssertionFailure(m_entrypoint_missing)
    ELSE LET content == f.entrypoint.content
         IN  IF ~Contains(content, s_shebang) THEN AssertionFailure(m_entrypoint_bash)
             ELSE IF ~Contains(content, s_python) THEN AssertionFailure(m_entrypoint_python)
             ELSE IF ~Contains(content, s_uvicorn) THEN AssertionFailure(m_entrypoint_uvicorn)
             ELSE Passed

test_environment_variables_in_compose(f) ==
    IF ~f.compose.exists THEN Skip(m_compose_missing)
    ELSE LET content == lower(f.compose.content)
         IN  IF ~Contains(content, s_environment_colon)
             THEN AssertionFailure(m_compose_environment)
             ELSE IF ~Contains(content, s_ports_colon) THEN AssertionFailure(m_compose_ports)
             ELSE Passed

Checks ==
    {"test_github_workflow_exists", "test_github_workflow_configuration",
     "test_terraform_configuration", "test_dockerfile_exists",
     "test_entrypoint_script", "test_environment_variables_in_compose"}

(***************************************************************************)
(* The files the checks are run on                                         *)
(***************************************************************************)
s_deploy_staging ==
    <<"d","e","p","l","o","y","-","s","t","a","g","i","n","g">>
s_Deploy ==
    <<"D","e","p","l","o","y">>
s_steps_needs ==
    <<"s","t","e","p","s"," ","n","e","e","d","s">>
s_name_jobs ==
    <<"n","a","m","e"," ","j","o","b","s">>
s_all_jobs ==
    <<"s","e","c","u","r","i","t","y","-","s","c","a","n"," ","l","i","n","t",
          " ","t","e","s","t"," ","b","u","i","l","d"," ","d","e","p","l","o",
          "y">>
t_Dockerfile ==
    <<"F","R","O","M"," ","p","y","t","h","o","n",":","3","\n","W","O","R","K",
          "D","I","R"," ","/","a","p","p","\n","C","O","P","Y"," ","r","e","q",
          "u","i","r","e","m","e","n","t","s",".","t","x","t"," ",".","\n","E",
          "X","P","O","S","E"," ","8","0","0","0">>
t_Dockerfile_no_expose ==
    <<"F","R","O","M"," ","p","y","t","h","o","n",":","3","\n","W","O","R","K",
          "D","I","R"," ","/","a","p","p","\n","C","O","P","Y"," ","r","e","q",
          "u","i","r","e","m","e","n","t","s",".","t","x","t"," ",".">>
t_entrypoint ==
    <<"#","!","/","b","i","n","/","b","a","s","h","\n","p","y","t","h","o","n",
          " ","-","m"," ","u","v","i","c","o","r","n"," ","m","a","i","n",":",
          "a","p","p">>
t_entrypoint_sh ==
    <<"#","!","/","b","i","n","/","s","h","\n","p","y","t","h","o","n"," ","-",
          "m"," ","u","v","i","c","o","r","n"," ","m","a","i","n",":","a","p",
          "p">>
t_variables_tf ==
    <<"v","a","r","i","a","b","l","e"," ","\"","r","e","g","i","o","n","\""," ",
          "{","}">>
t_outputs_only ==
    <<"o","u","t","p","u","t"," ","\"","i","d","\""," ","{","}">>
t_compose ==
    <<"E","N","V","I","R","O","N","M","E","N","T",":","\n"," ","p","o","r","t",
          "s",":">>
t_compose_no_ports ==
    <<"e","n","v","i","r","o","n","m","e","n","t",":","\n"," ","e","x","p","o",
          "s","e",":","\n">>


Absent == [exists |-> FALSE]

File(content) == [exists |-> TRUE, content |-> content]

\* A workflow file, given by what yaml.safe_load makes of it.
WorkflowFile(loaded) == [exists |-> TRUE, safe_load |-> loaded]

\* The dict with the keys of the sequence order that are in present, in that order.
\* values gives the value of each key.
DictOf(order, present, values) ==
    LET keys == SelectSeq(order, LAMBDA k : k \in present)
    IN  PyDict([i \in DOMAIN keys |-> [key |-> keys[i], value |-> values[keys[i]]]])

\* The values of the test job: no mapping at all, or a mapping with or
\* without steps (a sequence, or null) and needs.
TestJobs ==
    {PyNone, PyStr(s_steps_needs), PyList(<<PyStr(s_steps), PyStr(s_needs)>>)}
    \cup {DictOf(<<PyStr(s_steps), PyStr(s_needs)>>, present,
                 [k \in present |-> IF k = PyStr(s_steps) THEN steps
                                    ELSE PyList(<<PyStr(s_lint)>>)]) :
            present \in SUBSET {PyStr(s_steps), PyStr(s_needs)},
            steps \in {PyNone, PyList(<<PyStr(s_python)>>)}}

JobKeyOrder ==
    <<PyStr(s_security_scan), PyStr(s_lint), PyStr(s_test), PyStr(s_build),
      PyStr(s_deploy_staging), PyStr(s_Deploy), PyInt(1)>>

JobKeys == {JobKeyOrder[i] : i \in DOMAIN JobKeyOrder}

\* The values of jobs: no mapping at all, or a mapping with any of the keys
\* of JobKeyOrder, the test job being any of TestJobs.
JobsValues ==
    {PyNone, PyStr(s_all_jobs),
     PyList(<<PyStr(s_security_scan), PyStr(s_lint), PyStr(s_test), PyStr(s_build)>>)}
    \cup {DictOf(JobKeyOrder, present,
                 [k \in present |-> IF k.type = "str" /\ k = PyStr(s_test) THEN test_job
                                    ELSE PyDict(<< >>)]) :
            present \in SUBSET JobKeys, test_job \in TestJobs}

\* What yaml.safe_load makes of a workflow file: an error, no mapping at
\* all (None for an empty file), or a mapping with or without name and jobs.
Loaded ==
    {Raises("YAMLError"), Returns(PyNone), Returns(PyStr(s_name_jobs)),
     Returns(PyList(<<PyStr(s_name), PyStr(s_jobs)>>))}
    \cup {Returns(DictOf(<<PyStr(s_name), PyStr(s_jobs)>>, present,
                         [k \in present |-> IF k = PyStr(s_jobs) THEN jobs ELSE PyStr(s_test)])) :
            present \in SUBSET {PyStr(s_name), PyStr(s_jobs)}, jobs \in JobsValues}

Workflows == {Absent} \cup {WorkflowFile(l) : l \in Loaded}

\* A workflow that passes both checks.
GoodWorkflow ==
    LET test_job == DictOf(<<PyStr(s_steps), PyStr(s_needs)>>, {PyStr(s_steps), PyStr(s_needs)},
                           [k \in {PyStr(s_steps), PyStr(s_needs)} |-> PyList(<<PyStr(s_lint)>>)])
        names == {PyStr(s_security_scan), PyStr(s_lint), PyStr(s_test), PyStr(s_build),
                  PyStr(s_deploy_staging)}
        jobs == DictOf(JobKeyOrder, names,
                       [k \in names |-> IF k = PyStr(s_test) THEN test_job ELSE PyDict(<< >>)])
    IN  WorkflowFile(Returns(DictOf(<<PyStr(s_name), PyStr(s_jobs)>>, {PyStr(s_name), PyStr(s_jobs)},
            [k \in {PyStr(s_name), PyStr(s_jobs)} |->
                IF k = PyStr(s_jobs) THEN jobs ELSE PyStr(s_test)])))

Terraforms ==
    {[exists |-> FALSE, main_tf |-> FALSE, variables_tf |-> Absent]}
    \cup {[exists |-> TRUE, main_tf |-> m, variables_tf |-> v] :
            m \in BOOLEAN, v \in {Absent, File(t_variables_tf), File(t_outputs_only)}}

\* Every file the checks read is drawn on its own, the workflow among three.
FileSystems ==
    [workflow : {Absent, GoodWorkflow, WorkflowFile(Returns(PyNone))},
     terraform : Terraforms,
     docker : BOOLEAN,
     Dockerfile : {Absent, File(t_Dockerfile), File(t_Dockerfile_no_expose)},
     entrypoint : {Absent, File(t_entrypoint), File(t_entrypoint_sh)},
     compose : {Absent, File(t_compose), File(t_compose_no_ports)}]

\* Every workflow, the other files being there and well formed.
WorkflowFileSystems ==
    [workflow : Workflows,
     terraform : {[exists |-> TRUE, main_tf |-> TRUE, variables_tf |-> File(t_variables_tf)]},
     docker : {TRUE},
     Dockerfile : {File(t_Dockerfile)},
     entrypoint : {File(t_entrypoint)},
     compose : {File(t_compose)}]

(***************************************************************************)
(* A run of the checks: each check runs once, in any order                 *)
(***************************************************************************)
Run(check, outcome) ==
    /\ results[check].outcome = "notrun"
    /\ results' = [results EXCEPT ![check] = outcome]
    /\ UNCHANGED fs
    /\ UNCHANGED serviceVars

RunWorkflowExists == Run("test_github_workflow_exists", test_github_workflow_exists(fs))

RunWorkflowConfiguration ==
    Run("test_github_workflow_configuration", test_github_workflow_configuration(fs))

RunTerraformConfiguration ==
    Run("test_terraform_configuration", test_terraform_configuration(fs))

RunDockerfileExists == Run("test_dockerfile_exists", test_dockerfile_exists(fs))

RunEntrypointScript == Run("test_entrypoint_script", test_entrypoint_script(fs))

RunComposeEnvironment ==
    Run("test_environment_variables_in_compose", test_environment_variables_in_compose(fs))

\* The service is not part of a run of the checks.
ServiceIdle ==
    /\ environ = << >>
    /\ pc = "main"
    /\ exc = "none"
    /\ server = NotCalled
    /\ launchEnv = << >>
    /\ prevRoot = [response |-> NoResponse, environ |-> << >>]
    /\ lastRoot = [response |-> NoResponse, environ |-> << >>]
    /\ lastHealth = NoResponse

ValidatorInit ==
    /\ ServiceIdle
    /\ fs \in FileSystems
    /\ results = [c \in Checks |-> NotRun]

ValidatorNext ==
    \/ RunWorkflowExists
    \/ RunWorkflowConfiguration
    \/ RunTerraformConfiguration
    \/ RunDockerfileExists
    \/ RunEntrypointScript
    \/ RunComposeEnvironment

ValidatorSpec == ValidatorInit /\ [][ValidatorNext]_vars

WorkflowInit ==
    /\ ServiceIdle
    /\ fs \in WorkflowFileSystems
    /\ results = [c \in Checks |-> NotRun]

WorkflowNext ==
    \/ RunWorkflowExists
    \/ RunWorkflowConfiguration

WorkflowSpec == WorkflowInit /\ [][WorkflowNext]_vars

(***************************************************************************)
(* Claims about the status service, checked under Spec                     *)
(***************************************************************************)
RootResponses == {r \in {prevRoot, lastRoot} : r.response.sent}

\* C1: every GET / returns status 200 and a body of exactly the four keys
\* message, status, environment and port, where message is "Hello World",
\* status is "Running", and environment and port are the values ENVIRONMENT
\* and PORT have at the time of that request, character for character, with
\* "development" and "8000" when the variable is unset.
C1_RootEchoesEnvironmentAtRequest ==
    \A r \in RootResponses :
        /\ r.response.status = 200
        /\ DOMAIN r.response.body = {"message", "status", "environment", "port"}
        /\ r.response.body.message = s_Hello_World
        /\ r.response.body.status = s_Running
        /\ r.response.body.environment =
              (IF "ENVIRONMENT" \in DOMAIN r.environ
               THEN r.environ["ENVIRONMENT"] ELSE s_development)
        /\ r.response.body.port =
              (IF "PORT" \in DOMAIN r.environ THEN r.environ["PORT"] ELSE s_8000)

\* A GET / answered after the environment was changed since the launch, with
\* PORT set to a string that int() would normalise, after an earlier GET /
\* answered with PORT unset.
C1_Witness ==
    /\ prevRoot.response.sent
    /\ "PORT" \notin DOMAIN prevRoot.environ
    /\ prevRoot.response.body.port = s_8000
    /\ lastRoot.response.sent
    /\ lastRoot.environ # launchEnv
    /\ "PORT" \in DOMAIN lastRoot.environ
    /\ lastRoot.response.body.port = s_080_padded

\* C2: every GET /health returns status 200 with the body {"status":
\* "healthy"} and nothing else, whatever the environment is and whatever
\* came before; so any two GET /health responses are identical.
C2_HealthIsConstant ==
    lastHealth.sent =>
        /\ lastHealth.status = 200
        /\ DOMAIN lastHealth.body = {"status"}
        /\ lastHealth.body.status = s_healthy

\* A GET /health answered after a GET / and with ENVIRONMENT changed to the
\* empty string since the launch.
C2_Witness ==
    /\ lastHealth.sent
    /\ lastRoot.response.sent
    /\ "ENVIRONMENT" \in DOMAIN environ
    /\ environ["ENVIRONMENT"] = s_empty
    /\ environ # launchEnv

\* C3: launched directly, with every combination of HOST, PORT and
\* ENVIRONMENT, the process reaches the bind of the listening socket: it
\* never ends in an error raised before the bind.
C3_LaunchReachesBind == pc # "error"

\* C4: the configuration values the service uses are non-empty strings: the
\* environment and port values GET / returns and the host uvicorn.run gets.
C4_ConfigurationValuesNonEmpty ==
    /\ \A r \in RootResponses :
          /\ r.response.body.environment # s_empty
          /\ r.response.body.port # s_empty
    /\ server.called => server.host # s_empty

\* C5 as stated: the configuration is read once at process start, so any
\* two GET / responses of one process carry the same environment and port.
C5_ConfigurationReadOnce ==
    (prevRoot.response.sent /\ lastRoot.response.sent) =>
        /\ prevRoot.response.body.environment = lastRoot.response.body.environment
        /\ prevRoot.response.body.port = lastRoot.response.body.port

\* The value a variable has for the service: its value, or the default when unset.
Effective(e, name, default) == IF name \in DOMAIN e THEN e[name] ELSE default

\* C5, amended: the configuration is read at each GET /: the environment
\* (port) values of two GET / responses of one process are equal exactly
\* when ENVIRONMENT (PORT) had the same effective value at the two requests.
C5_ConfigurationReadAtEachRequest ==
    (prevRoot.response.sent /\ lastRoot.response.sent) =>
        /\ (prevRoot.response.body.environment = lastRoot.response.body.environment)
              <=> (Effective(prevRoot.environ, "ENVIRONMENT", s_development)
                      = Effective(lastRoot.environ, "ENVIRONMENT", s_development))
        /\ (prevRoot.response.body.port = lastRoot.response.body.port)
              <=> (Effective(prevRoot.environ, "PORT", s_8000)
                      = Effective(lastRoot.environ, "PORT", s_8000))

\* Two GET / requests of one process with ENVIRONMENT and PORT changed
\* between them, answered with different environment and port values.
C5_Witness ==
    /\ prevRoot.response.sent
    /\ lastRoot.response.sent
    /\ prevRoot.environ # lastRoot.environ
    /\ prevRoot.response.body.environment # lastRoot.response.body.environment
    /\ prevRoot.response.body.port # lastRoot.response.body.port

EqualsIgnoringCase(a, b) ==
    /\ Len(a) = Len(b)
    /\ \A i \in DOMAIN a : LowerChar(a[i]) = LowerChar(b[i])

\* C10: the reload flag passed to uvicorn.run is true exactly when
\* ENVIRONMENT, or "development" when it is unset, equals "development"
\* ignoring letter case: true when unset, false for the empty string and for
\* "development" with surrounding whitespace.
C10_ReloadIffDevelopment ==
    server.called =>
        /\ "ENVIRONMENT" \notin DOMAIN launchEnv => server.reload
        /\ "ENVIRONMENT" \in DOMAIN launchEnv =>
              /\ server.reload <=> EqualsIgnoringCase(launchEnv["ENVIRONMENT"], s_development)
              /\ launchEnv["ENVIRONMENT"] \in {s_empty, s_development_padded} => ~server.reload

\* uvicorn.run called with reload on for ENVIRONMENT=Development.
C10_Witness ==
    /\ server.called
    /\ "ENVIRONMENT" \in DOMAIN launchEnv
    /\ launchEnv["ENVIRONMENT"] = s_Development
    /\ server.reload

(***************************************************************************)
(* Claims about the descriptor checks                                      *)
(***************************************************************************)
configuration == results["test_github_workflow_configuration"]

\* The workflow file exists and loads to a mapping.
LoadsToMapping(w) ==
    /\ w.exists
    /\ w.safe_load.raises = "none"
    /\ w.safe_load.value.type = "dict"

HasKey(mapping, name) ==
    \E i \in DOMAIN mapping.items :
        /\ mapping.items[i].key.type = "str"
        /\ mapping.items[i].key.chars = name

ValueAt(mapping, name) ==
    mapping.items[CHOOSE i \in DOMAIN mapping.items :
                      /\ mapping.items[i].key.type = "str"
                      /\ mapping.items[i].key.chars = name].value

\* The workflow file exists and loads to a mapping whose jobs are a mapping.
HasJobsMapping(w) ==
    /\ LoadsToMapping(w)
    /\ HasKey(w.safe_load.value, s_jobs)
    /\ ValueAt(w.safe_load.value, s_jobs).type = "dict"

JobsOf(w) == ValueAt(w.safe_load.value, s_jobs)

FailsNamingBuild(o) ==
    /\ o.outcome = "failed"
    /\ o.raised = "AssertionError"
    /\ Contains(o.message, s_build)

\* C6 as stated: for every workflow file that exists and whose jobs mapping
\* has no build entry, whatever else it has or lacks, the configuration
\* check fails with a message that names build.
C6_MissingBuildAlwaysNamed ==
    (configuration.outcome # "notrun" /\ HasJobsMapping(fs.workflow)
        /\ ~HasKey(JobsOf(fs.workflow), s_build))
    => FailsNamingBuild(configuration)

\* C6, amended: for every such workflow file the configuration check ends
\* in an assertion failure, and the message names build when the workflow
\* has a name key and its jobs have the entries security-scan, lint and
\* test, which are asserted first.
C6_MissingBuildNamedAfterEarlierAsserts ==
    (configuration.outcome # "notrun" /\ HasJobsMapping(fs.workflow)
        /\ ~HasKey(JobsOf(fs.workflow), s_build))
    => /\ configuration.outcome = "failed"
       /\ configuration.raised = "AssertionError"
       /\ (/\ HasKey(fs.workflow.safe_load.value, s_name)
           /\ HasKey(JobsOf(fs.workflow), s_security_scan)
           /\ HasKey(JobsOf(fs.workflow), s_lint)
           /\ HasKey(JobsOf(fs.workflow), s_test))
          => FailsNamingBuild(configuration)

\* The configuration check has failed naming build on a workflow that lacks
\* only the build job and the deploy jobs.
C6_Witness ==
    /\ HasJobsMapping(fs.workflow)
    /\ HasKey(fs.workflow.safe_load.value, s_name)
    /\ ~HasKey(JobsOf(fs.workflow), s_build)
    /\ ~HasKey(JobsOf(fs.workflow), s_deploy_staging)
    /\ FailsNamingBuild(configuration)

\* The conditions of the workflow rule: a mapping with name and jobs, the
\* jobs security-scan, lint, test and build, a test job with a steps
\* sequence and a needs key, and a job key that begins with deploy.
MeetsWorkflowRule(w) ==
    /\ HasJobsMapping(w)
    /\ HasKey(w.safe_load.value, s_name)
    /\ \A job \in {s_security_scan, s_lint, s_test, s_build} : HasKey(JobsOf(w), job)
    /\ ValueAt(JobsOf(w), s_test).type = "dict"
    /\ HasKey(ValueAt(JobsOf(w), s_test), s_steps)
    /\ ValueAt(ValueAt(JobsOf(w), s_test), s_steps).type = "list"
    /\ HasKey(ValueAt(JobsOf(w), s_test), s_needs)
    /\ \E i \in DOMAIN JobsOf(w).items :
          /\ JobsOf(w).items[i].key.type = "str"
          /\ startswith(JobsOf(w).items[i].key.chars, s_deploy)

\* C7: the configuration check passes if and only if the workflow file
\* meets the conditions of the workflow rule.
C7_PassesIffWorkflowRule ==
    configuration.outcome # "notrun"
    => (configuration.outcome = "passed" <=> MeetsWorkflowRule(fs.workflow))

\* C9: every outcome of the configuration check that is neither a pass nor
\* a skip is an assertion failure with a message, never another error.
C9_FailuresAreAssertions ==
    configuration.outcome = "failed"
    => /\ configuration.raised = "AssertionError"
       /\ configuration.message # << >>

Ran == {c \in Checks : results[c].outcome # "notrun"}

\* What a check reports is one of pass, fail and skip, and the optional
\* files, when absent, make their checks skip.
OutcomesAndOptionalFiles ==
    /\ \A c \in Ran : results[c].outcome \in {"passed", "failed", "skipped"}
    /\ ("test_terraform_configuration" \in Ran /\ ~fs.terraform.exists)
          => results["test_terraform_configuration"].outcome = "skipped"
    /\ ("test_environment_variables_in_compose" \in Ran /\ ~fs.compose.exists)
          => results["test_environment_variables_in_compose"].outcome = "skipped"

\* With docker available, an absent Dockerfile and an absent entrypoint
\* script make their checks fail.
MandatoryContainerFiles ==
    /\ ("test_dockerfile_exists" \in Ran /\ fs.docker /\ ~fs.Dockerfile.exists)
          => results["test_dockerfile_exists"].outcome = "failed"
    /\ ("test_entrypoint_script" \in Ran /\ fs.docker /\ ~fs.entrypoint.exists)
          => results["test_entrypoint_script"].outcome = "failed"

\* C8 as stated: every check reports one of pass, fail and skip; an absent
\* optional file makes its check skip; an absent mandatory file makes every
\* check that reads it fail, the workflow file in both of its checks.
C8_AbsentMandatoryAlwaysFails ==
    /\ OutcomesAndOptionalFiles
    /\ MandatoryContainerFiles
    /\ \A c \in Ran \cap {"test_github_workflow_exists", "test_github_workflow_configuration"} :
          ~fs.workflow.exists => results[c].outcome = "failed"

\* C8, amended: as stated, except that an absent workflow file makes
\* test_github_workflow_exists fail and test_github_workflow_configuration
\* skip.
C8_AbsentWorkflowFailsOnceSkipsOnce ==
    /\ OutcomesAndOptionalFiles
    /\ MandatoryContainerFiles
    /\ ("test_github_workflow_exists" \in Ran /\ ~fs.workflow.exists)
          => results["test_github_workflow_exists"].outcome = "failed"
    /\ ("test_github_workflow_configuration" \in Ran /\ ~fs.workflow.exists)
          => results["test_github_workflow_configuration"].outcome = "skipped"

\* All six checks have run with docker available and every file absent.
C8_Witness ==
    /\ Ran = Checks
    /\ fs.docker
    /\ ~fs.workflow.exists
    /\ ~fs.terraform.exists
    /\ ~fs.Dockerfile.exists
    /\ ~fs.entrypoint.exists
    /\ ~fs.compose.exists

====
